---- MODULE Spec2Model ----
(***************************************************************************)
(* The run store of the ObjectiveFunction server: the runs of the          *)
(* scenarios of one study, the lookup / claim / result operations of       *)
(* models.py and the routes of routes.py that call them.  Every request is *)
(* handled by one of the callers in Procs; a handler that issues several   *)
(* SQL statements before it commits is split at those statements, so that  *)
(* the handlers of different callers interleave the way separate server    *)
(* processes on one database do.                                           *)
(***************************************************************************)
EXTENDS Integers, FiniteSets, Sequences, TLC

\* ------------------------------------------------------------------ bounds
\* run identities are drawn from 1..MaxId
MaxId == 3
\* number of concurrent callers (server processes handling one request each)
NumProcs == 2
\* number of requests handled in one behaviour
MaxCalls == 3

\* --------------------------------------------------------- LookupState enum
PROVISIONAL == 1
\* NEW is a reserved word of TLA+
NEW_ == 2
CONFIGURING == 3
CONFIGURED == 4
ACTIVE == 5
RUN == 6
POSTPROCESSING == 7
COMPLETED == 8

LookupState == PROVISIONAL..COMPLETED

\* ------------------------------------------------------------ static data
Procs == 1..NumProcs
\* one more caller, whose requests never overlap: the client that drives a
\* run through its whole life, one request after the other
Tester == 0
Callers == Procs \cup {Tester}
Ids == 1..MaxId
\* the values a parameter takes in a request (column value is an Integer)
Values == {0, 1}

\* the parameters of the study (tests: paramA float, paramB int), by name
Params == {"a", "b"}

\* the scenarios of the study and their run type
Scenarios == {"misfit", "path"}
\* a scenario whose column runtype holds neither member of RunType
Unknown == "unknown"

\* a run type is made up for every scenario
runtypeGuessed(s) == IF s = "misfit" THEN "MISFIT" ELSE "PATH"

runtype(s) == IF s = "misfit" THEN "MISFIT"
              ELSE IF s = "path" THEN "PATH" ELSE "NONE"
\* Scenario._Run has a class for the run type (else it raises ValueError)
KnownKind(s) == runtype(s) \in {"MISFIT", "PATH"}

\* a submitted parameter dictionary: a value for some of the parameter names
Dicts == UNION {[K -> Values] : K \in SUBSET Params}
\* the dictionaries that give every parameter a value
Vectors == [Params -> Values]

\* result payloads (the JSON value under 'value'); NULL is the empty column,
\* Missing a request body without the key 'value' (with other keys), Empty
\* a request without a JSON body or with the body {}
Payloads == {"x", "y"}
NULL == "null"
Missing == "missing"
Empty == "empty"

\* no run, in a request and in an outcome
NoRun == 0
NoDict == [k \in {} |-> 0]

VARIABLES
    runs,     \* the rows of table runs: identity -> row, for the live identities
    lastId,   \* the highest identity the store has handed out so far
    pc,       \* per caller: where its handler stands
    loc,      \* per caller: the request it handles and the handler's locals
    hist      \* the finished requests, in the order they returned

vars == <<runs, lastId, pc, loc, hist>>

\* ----------------------------------------------------------------- helpers
Max(S) == CHOOSE m \in S : \A n \in S : n <= m

\* a request: the operation and its arguments (those it does not take are
\* left at their defaults), and the handler's locals target and seen
NoCall == [op |-> "", scenario |-> "", dict |-> NoDict, run |-> NoRun,
           state |-> 0, new |-> 0, payload |-> Missing, force |-> FALSE,
           target |-> NoRun, seen |-> 0]

\* the outcome of a request: what it returns (kind, run, state, value) and,
\* for the record, the run it created, deleted or wrote (touched)
Outcome(kind, r, st, val, t) ==
    [kind |-> kind, run |-> r, state |-> st, value |-> val, touched |-> t]
\* Run.to_dict of RunMisfit / RunPath: id, state name, value
RunOutcome(rs, r) == Outcome("run", r, rs[r].state, rs[r].value, NoRun)
\* {'status': s} and the error responses
Status(s, t) == Outcome(s, NoRun, 0, NULL, t)

\* a row created without the assignment run.state = PROVISIONAL taking effect
NewRunAsNew(s, d) == [scenario |-> s, state |-> NEW_,
                      values |-> [q \in Params |-> d[q]], value |-> NULL]

\* a new row as Run.__init__ builds it: one value per parameter of the study
NewRun(s, d) == [scenario |-> s, state |-> PROVISIONAL,
                 values |-> [q \in Params |-> d[q]], value |-> NULL]

\* a store that ignores FOR UPDATE
LockedNever(r) == FALSE

\* the row lock a claim holds between its SELECT ... FOR UPDATE and its commit
Locked(r) == \E q \in Callers : pc[q] = "claim_locked" /\ loc[q].target = r

\* the identities the store may give a new row: a primary key is unique among
\* the live rows and nothing more is asked of it; a store that keeps a
\* sequence hands out lastId + 1, one that takes the largest live key plus
\* one (SQLite's rowid, the default database) hands a freed key out again
NewIds == {Max(DOMAIN runs \cup {0}) + 1, lastId + 1} \cap Ids

RunsOf(rs, s) == {r \in DOMAIN rs : rs[r].scenario = s}

\* a get_run that is content with one parameter that agrees
MatchesSome(rs, s, d) ==
    {r \in RunsOf(rs, s) : \E q \in Params : rs[r].values[q] = d[q]}

\* Scenario.get_run: the rows of the scenario whose value equals the
\* submitted one for every parameter of the study
Matches(rs, s, d) ==
    {r \in RunsOf(rs, s) : \A q \in Params : rs[r].values[q] = d[q]}

\* the query of get_run raises KeyError when the dictionary lacks a parameter
KeyErr(d) == DOMAIN d # Params

\* rows in a given state (filter_by(scenario=self, state=state))
InState(rs, s, st) == {r \in RunsOf(rs, s) : rs[r].state = st}

\* a query for PROVISIONAL runs without the filter on the scenario
ProvisionalsAnywhere(rs, s) == {r \in DOMAIN rs : rs[r].state = PROVISIONAL}

Provisionals(rs, s) == InState(rs, s, PROVISIONAL)

Remove(rs, r) == [i \in DOMAIN rs \ {r} |-> rs[i]]
\* a write of the state that rebinds the run to the zero vector
SetStateRebinds(rs, r, st) ==
    [rs EXCEPT ![r].state = st, ![r].values = [q \in Params |-> 0]]

SetState(rs, r, st) == [rs EXCEPT ![r].state = st]

\* a guard of set_value that lets a COMPLETED run through without force
MaySetValueAfterConfigured(st, force) == st > CONFIGURED \/ force

\* a guard of set_value that ignores force
MaySetValueUnforced(st, force) == st > CONFIGURED /\ st # COMPLETED

\* the guard of Run.set_value
MaySetValue(st, force) == (st > CONFIGURED /\ st # COMPLETED) \/ force

\* the requests a caller may make in one behaviour: the life of one run,
\* from its first lookup to the lookups that find it completed, takes more
\* requests than the concurrent callers are given
Budget(p) == IF p = Tester THEN 2 * MaxCalls + 1 ELSE MaxCalls

\* a request may start while the behaviour's budget of requests lasts
MayStart(p) ==
    /\ pc[p] = "idle"
    /\ Len(hist) + Cardinality({q \in Callers : pc[q] # "idle"}) < Budget(p)

\* the handler returns: the request and its outcome are recorded
Done(p, c, o) ==
    /\ pc' = [pc EXCEPT ![p] = "idle"]
    /\ loc' = [loc EXCEPT ![p] = NoCall]
    /\ hist' = Append(hist, [proc |-> p,
                             call |-> [c EXCEPT !.target = NoRun, !.seen = 0],
                             out |-> o])

\* the handler goes on to its next statement
Goto(p, label, c) ==
    /\ pc' = [pc EXCEPT ![p] = label]
    /\ loc' = [loc EXCEPT ![p] = c]
    /\ hist' = hist

\* -------------------------------------------------------------------- Init
\* the server with the store holding the rows rs
InitWith(rs) ==
    /\ runs = rs
    /\ lastId = Max(DOMAIN rs \cup {0})
    /\ pc = [p \in Callers |-> "idle"]
    /\ loc = [p \in Callers |-> NoCall]
    /\ hist = <<>>

NoRuns == [i \in {} |-> 0]

\* the state after manage.py --init-db: no run
Init == InitWith(NoRuns)

\* ------------------------------------------------- Scenario.lookup_run
\* lookup_run without the test run.state == PROVISIONAL: every hit is confirmed
LookupFindConfirmsAll(p, s, d) ==
    /\ MayStart(p)
    /\ LET c == [NoCall EXCEPT !.op = "lookup_run", !.scenario = s, !.dict = d] IN
       IF KeyErr(d) \/ Matches(runs, s, d) = {}
       THEN Goto(p, "lookup_miss", c)
       ELSE \E r \in Matches(runs, s, d) :
              Goto(p, "lookup_confirm", [c EXCEPT !.target = r])
    /\ UNCHANGED <<runs, lastId>>

\* lookup_run without the query for a provisional run: a miss always creates
LookupProvisionalSkipped(p) ==
    /\ pc[p] = "lookup_miss"
    /\ Goto(p, "lookup_create", loc[p])
    /\ UNCHANGED <<runs, lastId>>

\* lookup_run that reports 'waiting' without deleting the provisional run
LookupEvictKeeps(p) ==
    /\ pc[p] = "lookup_evict"
    /\ Done(p, loc[p], Status("waiting", loc[p].target))
    /\ UNCHANGED <<runs, lastId>>

\* lookup_run that reports 'new' without writing the state
LookupConfirmKeeps(p) ==
    /\ pc[p] = "lookup_confirm"
    /\ Done(p, loc[p], Status("new", loc[p].target))
    /\ UNCHANGED <<runs, lastId>>

\* lookup_run, first statement: get_run.  A hit on a run that is not
\* PROVISIONAL is returned at once; a hit on a PROVISIONAL run goes on to
\* the confirming write; a miss (LookupError, KeyError included) goes on to
\* the query for a provisional run.
LookupFind(p, s, d) ==
    /\ MayStart(p)
    /\ LET c == [NoCall EXCEPT !.op = "lookup_run", !.scenario = s, !.dict = d] IN
       IF ~KnownKind(s)
       THEN Done(p, c, Status("UnknownKind", NoRun))
       ELSE IF KeyErr(d) \/ Matches(runs, s, d) = {}
       THEN Goto(p, "lookup_miss", c)
       ELSE \E r \in Matches(runs, s, d) :
              IF runs[r].state = PROVISIONAL
              THEN Goto(p, "lookup_confirm", [c EXCEPT !.target = r])
              ELSE Done(p, c, RunOutcome(runs, r))
    /\ UNCHANGED <<runs, lastId>>

\* lookup_run, after a miss: the query for a PROVISIONAL run of the scenario
LookupProvisional(p) ==
    /\ pc[p] = "lookup_miss"
    /\ LET P == Provisionals(runs, loc[p].scenario) IN
       IF P # {}
       THEN \E r \in P : Goto(p, "lookup_evict", [loc[p] EXCEPT !.target = r])
       ELSE Goto(p, "lookup_create", loc[p])
    /\ UNCHANGED <<runs, lastId>>

\* lookup_run, a provisional run exists: delete it, commit, 'waiting'
LookupEvict(p) ==
    /\ pc[p] = "lookup_evict"
    /\ ~Locked(loc[p].target)
    /\ runs' = IF loc[p].target \in DOMAIN runs
               THEN Remove(runs, loc[p].target) ELSE runs
    /\ Done(p, loc[p], Status("waiting", loc[p].target))
    /\ UNCHANGED lastId

\* lookup_run, no provisional run: create one, commit, 'provisional'
LookupCreate(p) ==
    /\ pc[p] = "lookup_create"
    /\ IF KeyErr(loc[p].dict)
       THEN /\ Done(p, loc[p], Status("KeyError", NoRun))
            /\ UNCHANGED <<runs, lastId>>
       ELSE \E n \in NewIds \ DOMAIN runs :
            /\ runs' = (n :> NewRun(loc[p].scenario, loc[p].dict)) @@ runs
            /\ lastId' = IF n > lastId THEN n ELSE lastId
            /\ Done(p, loc[p], Status("provisional", n))

\* lookup_run, the hit was PROVISIONAL: set it to NEW, commit, 'new'
LookupConfirm(p) ==
    /\ pc[p] = "lookup_confirm"
    /\ ~Locked(loc[p].target)
    /\ IF loc[p].target \in DOMAIN runs
       THEN /\ runs' = SetState(runs, loc[p].target, NEW_)
            /\ Done(p, loc[p], Status("new", loc[p].target))
       ELSE /\ runs' = runs
            /\ Done(p, loc[p], Status("StaleDataError", NoRun))
    /\ UNCHANGED lastId

LookupStep(p) ==
    \/ LookupProvisional(p)
    \/ LookupEvict(p)
    \/ LookupCreate(p)
    \/ LookupConfirm(p)

\* ---------------------------------------------------- Scenario.get_run
\* a get_run that confirms the run it finds, as lookup_run does
GetRunConfirms(p, s, d) ==
    /\ MayStart(p)
    /\ LET c == [NoCall EXCEPT !.op = "get_run", !.scenario = s, !.dict = d] IN
       IF KeyErr(d) \/ Matches(runs, s, d) = {}
       THEN /\ Done(p, c, Status("NotFound", NoRun))
            /\ runs' = runs
       ELSE \E r \in Matches(runs, s, d) :
              /\ runs' = IF runs[r].state = PROVISIONAL
                         THEN SetState(runs, r, NEW_) ELSE runs
              /\ Done(p, c, RunOutcome(runs', r))
    /\ UNCHANGED lastId

\* route get_run: the run bound to the dictionary, or 404 (LookupError, the
\* KeyError of a dictionary that lacks a parameter included)
GetRun(p, s, d) ==
    /\ MayStart(p)
    /\ LET c == [NoCall EXCEPT !.op = "get_run", !.scenario = s, !.dict = d] IN
       IF KeyErr(d) \/ Matches(runs, s, d) = {}
       THEN Done(p, c, Status("NotFound", NoRun))
       ELSE IF ~KnownKind(s)
       THEN Done(p, c, Status("UnknownKind", NoRun))
       ELSE \E r \in Matches(runs, s, d) : Done(p, c, RunOutcome(runs, r))
    /\ UNCHANGED <<runs, lastId>>

\* ----------------------------------------- Scenario.get_run_with_state
\* get_run_with_state without new_state: a plain read of some run in state st
ClaimRead(p, s, st) ==
    /\ MayStart(p)
    /\ LET c == [NoCall EXCEPT !.op = "get_run_with_state", !.scenario = s,
                               !.state = st] IN
       IF ~KnownKind(s)
       THEN Done(p, c, Status("UnknownKind", NoRun))
       ELSE IF InState(runs, s, st) = {}
       THEN Done(p, c, Status("NotFound", NoRun))
       ELSE \E r \in InState(runs, s, st) : Done(p, c, RunOutcome(runs, r))
    /\ UNCHANGED <<runs, lastId>>

\* a claim that takes a run in any state when none is in state st
ClaimSelectAny(p, s, st, ns) ==
    /\ MayStart(p)
    /\ LET c == [NoCall EXCEPT !.op = "get_run_with_state", !.scenario = s,
                               !.state = st, !.new = ns]
           R == IF InState(runs, s, st) = {} THEN RunsOf(runs, s)
                                             ELSE InState(runs, s, st) IN
       IF R = {}
       THEN Done(p, c, Status("NotFound", NoRun))
       ELSE \E r \in R :
              /\ ~Locked(r)
              /\ Goto(p, "claim_locked", [c EXCEPT !.target = r])
    /\ UNCHANGED <<runs, lastId>>

\* get_run_with_state with new_state, the SELECT ... FOR UPDATE: some run in
\* state st whose row no other claim holds is read and locked; while every
\* such row is held the statement waits
ClaimSelect(p, s, st, ns) ==
    /\ MayStart(p)
    /\ LET c == [NoCall EXCEPT !.op = "get_run_with_state", !.scenario = s,
                               !.state = st, !.new = ns] IN
       IF ~KnownKind(s)
       THEN Done(p, c, Status("UnknownKind", NoRun))
       ELSE IF InState(runs, s, st) = {}
       THEN Done(p, c, Status("NotFound", NoRun))
       ELSE \E r \in InState(runs, s, st) :
              /\ ~Locked(r)
              /\ Goto(p, "claim_locked", [c EXCEPT !.target = r])
    /\ UNCHANGED <<runs, lastId>>

\* get_run_with_state with new_state, seen with the wait of its SELECT ...
\* FOR UPDATE as steps of its own: the request arrives,
ClaimBegin(p, s, st, ns) ==
    /\ MayStart(p)
    /\ Goto(p, "claim_select",
            [NoCall EXCEPT !.op = "get_run_with_state", !.scenario = s,
                           !.state = st, !.new = ns])
    /\ UNCHANGED <<runs, lastId>>

\* the statement finds every run in the state held by other claims and waits,
ClaimBlock(p) ==
    /\ pc[p] = "claim_select"
    /\ InState(runs, loc[p].scenario, loc[p].state) # {}
    /\ \A r \in InState(runs, loc[p].scenario, loc[p].state) : Locked(r)
    /\ Goto(p, "claim_wait", loc[p])
    /\ UNCHANGED <<runs, lastId>>

\* and the statement returns, at once or after its wait: a free run in the
\* state is read and locked, or there is none in the state (any more)
ClaimAcquire(p) ==
    /\ pc[p] \in {"claim_select", "claim_wait"}
    /\ IF ~KnownKind(loc[p].scenario)
       THEN Done(p, loc[p], Status("UnknownKind", NoRun))
       ELSE IF InState(runs, loc[p].scenario, loc[p].state) = {}
       THEN Done(p, loc[p], Status("NotFound", NoRun))
       ELSE \E r \in InState(runs, loc[p].scenario, loc[p].state) :
              /\ ~Locked(r)
              /\ Goto(p, "claim_locked", [loc[p] EXCEPT !.target = r])
    /\ UNCHANGED <<runs, lastId>>

\* a claim whose commit does not end the request nor release the row
ClaimWriteHolds(p) ==
    /\ pc[p] = "claim_locked"
    /\ runs' = SetState(runs, loc[p].target, loc[p].new)
    /\ UNCHANGED <<lastId, pc, loc, hist>>

\* a claim that writes the new state to every run in the state asked for
ClaimWriteAll(p) ==
    /\ pc[p] = "claim_locked"
    /\ runs' = [r \in DOMAIN runs |->
                  IF runs[r].state = loc[p].state
                  THEN [runs[r] EXCEPT !.state = loc[p].new] ELSE runs[r]]
    /\ Done(p, loc[p], [RunOutcome(runs', loc[p].target) EXCEPT
                            !.touched = loc[p].target])
    /\ UNCHANGED lastId

\* get_run_with_state with new_state, the write and the commit that
\* releases the row
ClaimWrite(p) ==
    /\ pc[p] = "claim_locked"
    /\ runs' = SetState(runs, loc[p].target, loc[p].new)
    /\ Done(p, loc[p], [RunOutcome(runs', loc[p].target) EXCEPT
                            !.touched = loc[p].target])
    /\ UNCHANGED lastId

\* ------------------------------------------------------- route run_state
\* PUT .../runs/<runid>/state: the state is overwritten with the one given
RunStatePut(p, s, r, st) ==
    /\ MayStart(p)
    /\ LET c == [NoCall EXCEPT !.op = "run_state", !.scenario = s, !.run = r,
                               !.state = st] IN
       IF r \notin RunsOf(runs, s)
       THEN /\ Done(p, c, Status("NotFound", NoRun))
            /\ runs' = runs
       ELSE /\ ~Locked(r)
            /\ runs' = SetState(runs, r, st)
            /\ Done(p, c, Status("ok", r))
    /\ UNCHANGED lastId

\* ------------------------------------------------------- route run_value
\* GET .../runs/<runid>/value: Run.get_value, the stored column as it is
GetValue(p, s, r) ==
    /\ MayStart(p)
    /\ LET c == [NoCall EXCEPT !.op = "get_value", !.scenario = s, !.run = r] IN
       IF r \notin RunsOf(runs, s)
       THEN Done(p, c, Status("NotFound", NoRun))
       ELSE Done(p, c, Outcome("value", NoRun, 0, runs[r].value, NoRun))
    /\ UNCHANGED <<runs, lastId>>

\* a set_value that reads data['value'] before it checks the state
SetValueCheckPayloadFirst(p, s, r, pay, force) ==
    /\ MayStart(p)
    /\ LET c == [NoCall EXCEPT !.op = "set_value", !.scenario = s, !.run = r,
                               !.payload = pay, !.force = force] IN
       IF r \notin RunsOf(runs, s)
       THEN Done(p, c, Status("NotFound", NoRun))
       ELSE IF pay \in {Missing, Empty}
       THEN Done(p, c, Status("BadPayload", NoRun))
       ELSE IF ~MaySetValue(runs[r].state, force)
       THEN Done(p, c, Status("InvalidStateTransition", NoRun))
       ELSE Goto(p, "set_value_write",
                 [c EXCEPT !.target = r, !.seen = runs[r].state])
    /\ UNCHANGED <<runs, lastId>>

\* a set_value that writes the state COMPLETED before it reads data['value']
SetValueCheckCompletesFirst(p, s, r, pay, force) ==
    /\ MayStart(p)
    /\ pay = Empty => ~force
    /\ lastId' = lastId
    /\ LET c == [NoCall EXCEPT !.op = "set_value", !.scenario = s, !.run = r,
                               !.payload = pay, !.force = force] IN
       IF r \notin RunsOf(runs, s)
       THEN Done(p, c, Status("NotFound", NoRun)) /\ runs' = runs
       ELSE IF pay = Empty
       THEN Done(p, c, Status("BadPayload", NoRun)) /\ runs' = runs
       ELSE IF ~MaySetValue(runs[r].state, force)
       THEN Done(p, c, Status("InvalidStateTransition", NoRun)) /\ runs' = runs
       ELSE IF pay = Missing
       THEN /\ Done(p, c, Status("BadPayload", NoRun))
            /\ runs' = SetState(runs, r, COMPLETED)
       ELSE /\ Goto(p, "set_value_write",
                    [c EXCEPT !.target = r, !.seen = runs[r].state])
            /\ runs' = runs

\* PUT .../runs/<runid>/value: the run is loaded, check_json refuses a body
\* that is not there or empty (400), and Run.set_value checks the state
\* (403, RuntimeError), then reads data['value'] (400, KeyError); force is
\* a key of the body, an empty body has none
SetValueCheck(p, s, r, pay, force) ==
    /\ MayStart(p)
    /\ pay = Empty => ~force
    /\ LET c == [NoCall EXCEPT !.op = "set_value", !.scenario = s, !.run = r,
                               !.payload = pay, !.force = force] IN
       IF r \notin RunsOf(runs, s)
       THEN Done(p, c, Status("NotFound", NoRun))
       ELSE IF pay = Empty
       THEN Done(p, c, Status("BadPayload", NoRun))
       ELSE IF ~MaySetValue(runs[r].state, force)
       THEN Done(p, c, Status("InvalidStateTransition", NoRun))
       ELSE IF pay = Missing
       THEN Done(p, c, Status("BadPayload", NoRun))
       ELSE Goto(p, "set_value_write",
                 [c EXCEPT !.target = r, !.seen = runs[r].state])
    /\ UNCHANGED <<runs, lastId>>

\* a set_value that stores the payload and leaves the state as it is
SetValueWriteKeepsState(p) ==
    /\ pc[p] = "set_value_write"
    /\ ~Locked(loc[p].target)
    /\ IF loc[p].target \in DOMAIN runs
       THEN /\ runs' = [runs EXCEPT ![loc[p].target].value = loc[p].payload]
            /\ Done(p, loc[p], Status("ok", loc[p].target))
       ELSE /\ runs' = runs
            /\ Done(p, loc[p], Status("StaleDataError", NoRun))
    /\ UNCHANGED lastId

\* a set_value that completes the run and drops the payload
SetValueWriteDropsValue(p) ==
    /\ pc[p] = "set_value_write"
    /\ ~Locked(loc[p].target)
    /\ IF loc[p].target \in DOMAIN runs
       THEN /\ runs' = SetState(runs, loc[p].target, COMPLETED)
            /\ Done(p, loc[p], Status("ok", loc[p].target))
       ELSE /\ runs' = runs
            /\ Done(p, loc[p], Status("StaleDataError", NoRun))
    /\ UNCHANGED lastId

\* Run.set_value, the commit: the value column is written, and the state
\* column when the state the handler loaded was not COMPLETED already (the
\* session writes the attributes that changed)
SetValueWrite(p) ==
    /\ pc[p] = "set_value_write"
    /\ ~Locked(loc[p].target)
    /\ IF loc[p].target \in DOMAIN runs
       THEN /\ runs' = [runs EXCEPT
                   ![loc[p].target].value = loc[p].payload,
                   ![loc[p].target].state =
                       IF loc[p].seen = COMPLETED THEN @ ELSE COMPLETED]
            /\ Done(p, loc[p], Status("ok", loc[p].target))
       ELSE /\ runs' = runs
            /\ Done(p, loc[p], Status("StaleDataError", NoRun))
    /\ UNCHANGED lastId

\* =================================================== concurrent lookups
\* concurrent callers that submit full parameter vectors to one scenario
NextLookup ==
    \E p \in Procs :
        \/ \E d \in Vectors : LookupFind(p, "misfit", d)
        \/ LookupStep(p)

SpecLookup == Init /\ [][NextLookup]_vars

\* C1: in every reachable state, under any interleaving of concurrent
\* lookup_run calls, a scenario has at most one run in state PROVISIONAL.
C1_AtMostOneProvisional ==
    \A s \in Scenarios : Cardinality(Provisionals(runs, s)) <= 1

\* C2: in every reachable state, under any interleaving of lookup_run
\* calls, no two runs of one scenario have bound vectors equal on every
\* parameter.
C2_NoDuplicateVector ==
    \A r1, r2 \in DOMAIN runs :
        (r1 # r2 /\ runs[r1].scenario = runs[r2].scenario)
            => runs[r1].values # runs[r2].values

\* C20: under any interleaving of requests a run is deleted only while its
\* state is PROVISIONAL: a run that was confirmed to NEW or moved further
\* is never removed by the eviction of lookup_run.
C20_DeletedWhileProvisional ==
    [][\A r \in DOMAIN runs \ DOMAIN runs' : runs[r].state = PROVISIONAL]_vars

\* ===================================================== concurrent claims
\* the i-th of the parameter vectors, for the rows of an initial store
VecOf(i) == [q \in Params |-> IF q = "a" THEN (i - 1) % 2 ELSE ((i - 1) \div 2) % 2]

\* a store of n runs of scenario s in the states st[1..n], with distinct
\* vectors; a run holds a value when it is COMPLETED
StoreOf(s, n, st) ==
    [i \in 1..n |-> [scenario |-> s, state |-> st[i], values |-> VecOf(i),
                     value |-> IF st[i] = COMPLETED THEN "x" ELSE NULL]]

\* the stores of up to n runs of scenario s in states from S
StoresOf(s, n, S) ==
    UNION {{StoreOf(s, k, st) : st \in [1..k -> S]} : k \in 0..n}

\* workers poll a scenario whose runs are NEW or POSTPROCESSING: some claim
\* NEW runs into ACTIVE, some POSTPROCESSING runs into RUN
InitClaim == \E rs \in StoresOf("misfit", MaxId, {NEW_, POSTPROCESSING}) : InitWith(rs)

NextClaim ==
    \E p \in Procs :
        \/ ClaimSelect(p, "misfit", NEW_, ACTIVE)
        \/ ClaimSelect(p, "misfit", POSTPROCESSING, RUN)
        \/ ClaimWrite(p)

SpecClaim == InitClaim /\ [][NextClaim]_vars

\* the finished get_run_with_state requests for the transition st -> ns
ClaimCalls(s, st, ns) ==
    {i \in 1..Len(hist) : /\ hist[i].call.op = "get_run_with_state"
                          /\ hist[i].call.scenario = s
                          /\ hist[i].call.state = st
                          /\ hist[i].call.new = ns}

\* the runs that are, or at the start were, NEW (no other request of
\* SpecClaim touches the states NEW and ACTIVE)
EverNew == InState(runs, "misfit", NEW_) \cup InState(runs, "misfit", ACTIVE)

\* C3: two (or more) claims NEW -> ACTIVE against a scenario holding a
\* single NEW run: exactly one returns that run, as ACTIVE, every other one
\* returns NotFound, and the run ends in ACTIVE.
C3_OneClaimWins ==
    LET E == ClaimCalls("misfit", NEW_, ACTIVE) IN
    (Cardinality(EverNew) = 1 /\ Cardinality(E) >= 2) =>
        \E w \in E :
            /\ hist[w].out.kind = "run"
            /\ hist[w].out.run \in EverNew
            /\ hist[w].out.state = ACTIVE
            /\ runs[hist[w].out.run].state = ACTIVE
            /\ \A l \in E \ {w} : hist[l].out.kind = "NotFound"

\* two callers have claimed against the single NEW run; one holds it
C3_Witness ==
    LET E == ClaimCalls("misfit", NEW_, ACTIVE) IN
    /\ Cardinality(EverNew) = 1
    /\ \E i, j \in E : /\ hist[i].proc # hist[j].proc
                       /\ hist[i].out.kind = "run"
                       /\ hist[j].out.kind = "NotFound"

\* C4: no run is returned to two claims of the same transition, and between
\* the selection read and the state write of a claim the selected run is
\* held by that claim alone and still in the state that was read.
C4_ClaimsDisjoint ==
    /\ \A c \in {<<NEW_, ACTIVE>>, <<POSTPROCESSING, RUN>>} :
         \A i, j \in ClaimCalls("misfit", c[1], c[2]) :
            (i # j /\ hist[i].out.kind = "run" /\ hist[j].out.kind = "run")
                => hist[i].out.run # hist[j].out.run
    /\ \A p \in Procs : pc[p] = "claim_locked" =>
         /\ loc[p].target \in DOMAIN runs
         /\ runs[loc[p].target].state = loc[p].state
         /\ \A q \in Procs \ {p} :
                pc[q] = "claim_locked" => loc[q].target # loc[p].target

\* two callers have each claimed a run of the same transition
C4_Witness ==
    \E i, j \in ClaimCalls("misfit", NEW_, ACTIVE) :
        /\ hist[i].proc # hist[j].proc
        /\ hist[i].out.kind = "run"
        /\ hist[j].out.kind = "run"

\* ============================================= one caller, lookups only
\* the caller of the behaviours in which requests do not overlap
Client == CHOOSE p \in Procs : TRUE

\* what the caller submits: the parameter vectors, and a dictionary that
\* lacks parameter b
LookupInputs == Vectors \cup {[q \in {"a"} |-> 0]}

\* the stores lookups alone leave behind, and those other requests make of
\* them: runs with distinct vectors in any state, one of them PROVISIONAL at most
LookupStores ==
    {rs \in StoresOf("misfit", MaxId - 1, LookupState) :
        Cardinality(Provisionals(rs, "misfit")) <= 1}

InitSeqLookup == \E rs \in LookupStores : InitWith(rs)

NextSeqLookup ==
    \/ \E d \in LookupInputs : LookupFind(Client, "misfit", d)
    \/ LookupStep(Client)

SpecSeqLookup == InitSeqLookup /\ [][NextSeqLookup]_vars

\* this step is the return of a request
Returns == Len(hist') = Len(hist) + 1
\* this step is the return of lookup_run(s, d)
LookupReturns(s, d) ==
    /\ Returns
    /\ hist'[Len(hist')].call.op = "lookup_run"
    /\ hist'[Len(hist')].call.scenario = s
    /\ hist'[Len(hist')].call.dict = d

IsLookup(e) == e.call.op = "lookup_run" /\ e.call.dict \in Vectors

\* C6 as claimed: whenever lookup_run(v) finds no run bound to v (it answers
\* provisional or waiting) and lookup_run(v) is the next request, the first
\* answers provisional, the second answers new for the run the first
\* created, and no vector is bound twice nor are two runs PROVISIONAL.
C6_AnyStoreTwice ==
    /\ C1_AtMostOneProvisional
    /\ C2_NoDuplicateVector
    /\ \A i \in 1..(Len(hist) - 1) :
        (/\ IsLookup(hist[i]) /\ IsLookup(hist[i + 1])
         /\ hist[i].call.dict = hist[i + 1].call.dict
         /\ hist[i].out.kind \in {"provisional", "waiting"})
        => /\ hist[i].out.kind = "provisional"
           /\ hist[i + 1].out.kind = "new"
           /\ hist[i + 1].out.touched = hist[i].out.touched

\* C6 as amended: when no run is bound to v and no run is PROVISIONAL (the
\* first lookup_run(v) answers provisional), the next lookup_run(v) answers
\* new for the run the first created, which is then the one run bound to v
\* and NEW; no vector is ever bound twice nor are two runs PROVISIONAL.
C6_FreeSlotTwice ==
    /\ C1_AtMostOneProvisional
    /\ C2_NoDuplicateVector
    /\ \A i \in 1..(Len(hist) - 1) :
        (/\ IsLookup(hist[i]) /\ IsLookup(hist[i + 1])
         /\ hist[i].call.dict = hist[i + 1].call.dict
         /\ hist[i].out.kind = "provisional")
        => /\ hist[i + 1].out.kind = "new"
           /\ hist[i + 1].out.touched = hist[i].out.touched
           /\ (i + 1 = Len(hist) /\ pc[Client] = "idle") =>
                /\ Matches(runs, "misfit", hist[i].call.dict) = {hist[i].out.touched}
                /\ runs[hist[i].out.touched].state = NEW_

\* the same vector was looked up twice in a row beside another run: first
\* provisional, then new
C6_Witness ==
    /\ Len(hist) = 2
    /\ IsLookup(hist[1]) /\ IsLookup(hist[2])
    /\ hist[1].call.dict = hist[2].call.dict
    /\ hist[1].out.kind = "provisional"
    /\ hist[2].out.kind = "new"
    /\ Cardinality(DOMAIN runs) >= 2

\* C7 as claimed: lookup_run(v1) creates a run, the next request
\* lookup_run(v2), v2 # v1 and unbound, deletes it and answers waiting; the
\* lookup_run(v1) after that answers provisional for a run whose identity
\* differs from the deleted one's.
C7_FreshIdentity ==
    \A i \in 1..(Len(hist) - 1) :
        (/\ IsLookup(hist[i]) /\ IsLookup(hist[i + 1])
         /\ hist[i].call.dict # hist[i + 1].call.dict
         /\ hist[i].out.kind = "provisional"
         /\ hist[i + 1].out.kind \in {"provisional", "waiting"})
        => /\ hist[i + 1].out.kind = "waiting"
           /\ hist[i + 1].out.touched = hist[i].out.touched
           /\ (i + 2 <= Len(hist) /\ IsLookup(hist[i + 2])
                 /\ hist[i + 2].call.dict = hist[i].call.dict)
              => /\ hist[i + 2].out.kind = "provisional"
                 /\ hist[i + 2].out.touched # hist[i].out.touched

\* C7 as amended: the second request deletes the run of the first and
\* answers waiting; the lookup_run(v1) after that answers provisional, and
\* the store then holds one run bound to v1, PROVISIONAL and without a
\* value, under the identity the store gave it (the deleted run's or another).
C7_EvictThenRecreate ==
    \A i \in 1..(Len(hist) - 1) :
        (/\ IsLookup(hist[i]) /\ IsLookup(hist[i + 1])
         /\ hist[i].call.dict # hist[i + 1].call.dict
         /\ hist[i].out.kind = "provisional"
         /\ hist[i + 1].out.kind \in {"provisional", "waiting"})
        => /\ hist[i + 1].out.kind = "waiting"
           /\ hist[i + 1].out.touched = hist[i].out.touched
           /\ (i + 1 = Len(hist) /\ pc[Client] = "idle") =>
                /\ Matches(runs, "misfit", hist[i].call.dict) = {}
                /\ Matches(runs, "misfit", hist[i + 1].call.dict) = {}
                /\ Provisionals(runs, "misfit") = {}
           /\ (i + 2 <= Len(hist) /\ IsLookup(hist[i + 2])
                 /\ hist[i + 2].call.dict = hist[i].call.dict)
              => /\ hist[i + 2].out.kind = "provisional"
                 /\ (i + 2 = Len(hist) /\ pc[Client] = "idle") =>
                      /\ Matches(runs, "misfit", hist[i].call.dict)
                            = {hist[i + 2].out.touched}
                      /\ runs[hist[i + 2].out.touched]
                            = NewRun("misfit", hist[i].call.dict)

\* v1, then v2, then v1 again: provisional, waiting, provisional
C7_Witness ==
    /\ Len(hist) = 3
    /\ IsLookup(hist[1]) /\ IsLookup(hist[2]) /\ IsLookup(hist[3])
    /\ hist[1].call.dict # hist[2].call.dict
    /\ hist[3].call.dict = hist[1].call.dict
    /\ hist[1].out.kind = "provisional"
    /\ hist[2].out.kind = "waiting"
    /\ hist[3].out.kind = "provisional"
    /\ hist[3].out.touched \in DOMAIN runs

\* C8: lookup_run(v) when no run is bound to v and no run of the scenario is
\* PROVISIONAL answers provisional and adds exactly one run, bound to v,
\* PROVISIONAL and without a value; every other run is as before.
C8_CreatesProvisional ==
    [][\A d \in Vectors :
        (/\ LookupReturns("misfit", d)
         /\ Matches(runs, "misfit", d) = {}
         /\ Provisionals(runs, "misfit") = {})
        => /\ hist'[Len(hist')].out.kind = "provisional"
           /\ hist'[Len(hist')].out.run = NoRun
           /\ \E n \in DOMAIN runs' \ DOMAIN runs :
                /\ DOMAIN runs' = DOMAIN runs \cup {n}
                /\ runs'[n] = [scenario |-> "misfit", state |-> PROVISIONAL,
                               values |-> d, value |-> NULL]
                /\ \A r \in DOMAIN runs : runs'[r] = runs[r]]_vars

\* a lookup has created a provisional run beside two older runs
C8_Witness ==
    /\ Len(hist) >= 1
    /\ IsLookup(hist[Len(hist)])
    /\ hist[Len(hist)].out.kind = "provisional"
    /\ hist[Len(hist)].out.touched \in DOMAIN runs
    /\ Cardinality(DOMAIN runs) >= 3

\* the outcome of every lookup_run for a full vector is among kinds
LookupKinds(kinds) ==
    \A d \in Vectors :
        LookupReturns("misfit", d) => hist'[Len(hist')].out.kind \in kinds

\* C9 as claimed: lookup_run(v) when v is bound to a PROVISIONAL run sets it
\* to NEW, creates and deletes no run and returns that run, as NEW; every
\* outcome is a run, provisional or waiting.
C9_ReturnsConfirmedRun ==
    [][/\ LookupKinds({"run", "provisional", "waiting"})
       /\ \A d \in Vectors : \A r \in Matches(runs, "misfit", d) :
            (LookupReturns("misfit", d) /\ runs[r].state = PROVISIONAL)
            => /\ runs' = SetState(runs, r, NEW_)
               /\ hist'[Len(hist')].out.kind = "run"
               /\ hist'[Len(hist')].out.run = r
               /\ hist'[Len(hist')].out.state = NEW_]_vars

\* C9 as amended: lookup_run(v) when v is bound to a PROVISIONAL run sets it
\* to NEW, creates and deletes no run and answers with the status new, not
\* with the run; every outcome for a full vector is a run or one of the
\* statuses provisional, waiting, new.
C9_ReportsNew ==
    [][/\ LookupKinds({"run", "provisional", "waiting", "new"})
       /\ \A d \in Vectors : \A r \in Matches(runs, "misfit", d) :
            (LookupReturns("misfit", d) /\ runs[r].state = PROVISIONAL)
            => /\ runs' = SetState(runs, r, NEW_)
               /\ hist'[Len(hist')].out.kind = "new"
               /\ hist'[Len(hist')].out.run = NoRun]_vars

\* a lookup has confirmed the provisional run of the initial store
C9_Witness ==
    /\ Len(hist) = 1
    /\ IsLookup(hist[1])
    /\ hist[1].out.kind = "new"
    /\ hist[1].out.touched \in DOMAIN runs
    /\ runs[hist[1].out.touched].state = NEW_

\* C10: lookup_run(v) when v is bound to a run that is not PROVISIONAL
\* returns that run with its state and value and changes nothing.
C10_HitIsReadOnly ==
    [][\A d \in Vectors : \A r \in Matches(runs, "misfit", d) :
        (LookupReturns("misfit", d) /\ runs[r].state # PROVISIONAL)
        => /\ runs' = runs
           /\ lastId' = lastId
           /\ hist'[Len(hist')].out
                = Outcome("run", r, runs[r].state, runs[r].value, NoRun)]_vars

\* a lookup has returned a COMPLETED run with its value while another run
\* of the scenario is PROVISIONAL
C10_Witness ==
    /\ Len(hist) >= 1
    /\ IsLookup(hist[Len(hist)])
    /\ hist[Len(hist)].out.kind = "run"
    /\ hist[Len(hist)].out.state = COMPLETED
    /\ hist[Len(hist)].out.value = "x"
    /\ Provisionals(runs, "misfit") # {}

\* ============================================ one request, on any store
\* the stores the requests can make: runs with distinct vectors, each in any
\* state and with or without a value (run_state moves a run anywhere)
AnyStores(s, n) ==
    UNION {{[i \in 1..k |-> [scenario |-> s, state |-> st[i],
                             values |-> VecOf(i), value |-> v[i]]] :
               st \in [1..k -> LookupState], v \in [1..k -> {NULL, "x"}]} :
           k \in 0..n}

InitStep == \E rs \in AnyStores("misfit", MaxId - 1) : InitWith(rs)

\* one request of one caller, run to its end
NextStep ==
    \/ /\ hist = <<>>
       /\ \/ \E d \in LookupInputs : LookupFind(Client, "misfit", d)
          \/ \E d \in LookupInputs : GetRun(Client, "misfit", d)
          \/ \E st \in LookupState : ClaimRead(Client, "misfit", st)
          \/ \E st, ns \in LookupState : ClaimSelect(Client, "misfit", st, ns)
          \/ \E r \in Ids : GetValue(Client, "misfit", r)
          \/ \E r \in Ids, st \in LookupState : RunStatePut(Client, "misfit", r, st)
          \/ \E r \in Ids, v \in Payloads \cup {Missing, Empty}, f \in BOOLEAN :
                SetValueCheck(Client, "misfit", r, v, f)
    \/ LookupStep(Client)
    \/ ClaimWrite(Client)
    \/ SetValueWrite(Client)

SpecStep == InitStep /\ [][NextStep]_vars

\* this step is the commit of a set_value with force
ForcedSetValue ==
    \E p \in Procs : pc[p] = "set_value_write" /\ loc[p].force /\ pc'[p] = "idle"
\* this step is the commit of a claim
ClaimCommit ==
    \E p \in Procs : pc[p] = "claim_locked" /\ pc'[p] = "idle"
\* this step is a run_state PUT
StatePut == Returns /\ hist'[Len(hist')].call.op = "run_state"

\* no run that the step keeps is in a lower state after it
NotLowered == \A r \in DOMAIN runs \cap DOMAIN runs' : runs'[r].state >= runs[r].state

\* C5 as claimed: every step of a lookup_run, claim, run_state PUT or
\* set_value leaves every run it does not delete in a state at least as far
\* along as before, except the commit of a set_value with force.
C5_NeverLowered == [][NotLowered \/ ForcedSetValue]_vars

\* C5 as amended: every step of a lookup_run and of a set_value, with force
\* or without, leaves every run it does not delete in a state at least as
\* far along as before; the commit of a claim and a run_state PUT write the
\* state they are given and may lower it.
C5_LoweredOnlyByClaimOrPut == [][NotLowered \/ ClaimCommit \/ StatePut]_vars

\* a set_value with force has overwritten the value of a COMPLETED run
C5_Witness ==
    /\ Len(hist) = 1
    /\ hist[1].call.op = "set_value"
    /\ hist[1].call.force
    /\ hist[1].out.kind = "ok"
    /\ runs[hist[1].out.touched].state = COMPLETED
    /\ runs[hist[1].out.touched].value = "y"

\* the request that returns at this step, with its outcome
Last == hist'[Len(hist')]
\* this step is the return of a request op
Returned(op) == Returns /\ Last.call.op = op

\* the states in which Run.set_value refuses a payload given without force
Refusing == {PROVISIONAL, NEW_, CONFIGURING, CONFIGURED, COMPLETED}

\* C11: set_value without force on a run (Run.set_value, which a request
\* with a body reaches) fails with InvalidStateTransition (RuntimeError,
\* 403) when the run is PROVISIONAL, NEW, CONFIGURING, CONFIGURED or
\* COMPLETED, and in no other state (there it succeeds, or fails for its
\* payload).
C11_RefusedStates ==
    [][\A r \in DOMAIN runs :
        (/\ Returned("set_value") /\ Last.call.run = r /\ ~Last.call.force
         /\ Last.call.payload # Empty)
        => /\ (Last.out.kind = "InvalidStateTransition")
                <=> (runs[r].state \in Refusing)
           /\ Last.out.kind \in {"InvalidStateTransition", "ok", "BadPayload"}
           /\ (Last.out.kind = "InvalidStateTransition") => runs' = runs]_vars

\* a set_value without force was refused on a CONFIGURED run
C11_Witness ==
    /\ Len(hist) = 1
    /\ hist[1].call.op = "set_value"
    /\ ~hist[1].call.force
    /\ hist[1].call.payload = "y"
    /\ hist[1].out.kind = "InvalidStateTransition"
    /\ hist[1].call.run \in DOMAIN runs
    /\ runs[hist[1].call.run].state = CONFIGURED

\* C13: set_value with force and a payload succeeds on a run in each of the
\* eight states, stores the payload and leaves the run COMPLETED; on a
\* COMPLETED run the payload replaces the one stored before; no other run
\* changes.
C13_ForcedSetValue ==
    [][\A r \in DOMAIN runs :
        (/\ Returned("set_value")
         /\ Last.call.run = r /\ Last.call.scenario = runs[r].scenario
         /\ Last.call.force /\ Last.call.payload \in Payloads)
        => /\ Last.out.kind = "ok"
           /\ runs' = [runs EXCEPT ![r].state = COMPLETED,
                                   ![r].value = Last.call.payload]]_vars

\* a set_value with force has given the second run of the store a value
\* while the first is PROVISIONAL and without one
C13_Witness ==
    /\ Len(hist) = 1
    /\ hist[1].call.op = "set_value" /\ hist[1].call.force
    /\ hist[1].out.kind = "ok"
    /\ hist[1].call.run = 2
    /\ DOMAIN runs = {1, 2}
    /\ runs[1].state = PROVISIONAL /\ runs[1].value = NULL
    /\ runs[2].state = COMPLETED /\ runs[2].value = hist[1].call.payload

\* C14: get_run changes nothing in the store: for a vector bound to no run
\* it fails with NotFound, creates no run and deletes none; for a bound
\* vector it returns the run, and a PROVISIONAL run stays PROVISIONAL.
C14_GetRunReadOnly ==
    [][\A d \in LookupInputs :
        (Returned("get_run") /\ Last.call.dict = d)
        => /\ runs' = runs
           /\ lastId' = lastId
           /\ IF d \in Vectors /\ Matches(runs, "misfit", d) # {}
              THEN \E r \in Matches(runs, "misfit", d) :
                     Last.out = Outcome("run", r, runs[r].state, runs[r].value, NoRun)
              ELSE Last.out.kind = "NotFound"]_vars

\* get_run has returned a PROVISIONAL run, which is PROVISIONAL still
C14_Witness ==
    /\ Len(hist) = 1
    /\ hist[1].call.op = "get_run"
    /\ hist[1].out.kind = "run"
    /\ hist[1].out.state = PROVISIONAL
    /\ runs[hist[1].out.run].state = PROVISIONAL

\* this step is the return of get_run_with_state for state st
ClaimReturns(st) ==
    /\ Returned("get_run_with_state")
    /\ Last.call.scenario = "misfit"
    /\ Last.call.state = st

\* C16: get_run_with_state(state[, new_state]) answers NotFound when the
\* scenario has no run in state, and then changes no run, with new_state
\* and without.
C16_ClaimNotFound ==
    [][\A st \in LookupState :
        (ClaimReturns(st) /\ InState(runs, "misfit", st) = {})
        => /\ Last.out.kind = "NotFound"
           /\ runs' = runs
           /\ lastId' = lastId]_vars

\* a claim with new_state has answered NotFound on a store of two runs
C16_Witness ==
    /\ Len(hist) = 1
    /\ hist[1].call.op = "get_run_with_state"
    /\ hist[1].call.new = ACTIVE
    /\ hist[1].out.kind = "NotFound"
    /\ Cardinality(DOMAIN runs) = 2
    /\ InState(runs, "misfit", hist[1].call.state) = {}

\* C17: get_run_with_state(state) without new_state changes nothing;
\* with new_state it returns a run that was in state before the call, sets
\* the state of that run and no other to new_state, and leaves every
\* other state, every value and every bound vector as it was.
C17_ClaimFrame ==
    [][\A st \in LookupState :
        (ClaimReturns(st) /\ InState(runs, "misfit", st) # {})
        => /\ Last.out.kind = "run"
           /\ Last.out.run \in InState(runs, "misfit", st)
           /\ lastId' = lastId
           /\ IF Last.call.new = 0
              THEN /\ runs' = runs
                   /\ Last.out.state = st
              ELSE /\ runs' = SetState(runs, Last.out.run, Last.call.new)
                   /\ Last.out.state = Last.call.new]_vars

\* a claim NEW -> ACTIVE has taken one of two NEW runs; the other is NEW
C17_Witness ==
    /\ Len(hist) = 1
    /\ hist[1].call.op = "get_run_with_state"
    /\ hist[1].call.state = NEW_ /\ hist[1].call.new = ACTIVE
    /\ hist[1].out.kind = "run"
    /\ runs[hist[1].out.run].state = ACTIVE
    /\ \E r \in DOMAIN runs \ {hist[1].out.run} : runs[r].state = NEW_

\* C18: get_value on a run that holds no result (no set_value has stored
\* one) fails with NotFound and returns no empty value.
C18_NoResultNotFound ==
    [][\A r \in DOMAIN runs :
        (/\ Returned("get_value")
         /\ Last.call.run = r /\ Last.call.scenario = runs[r].scenario
         /\ runs[r].value = NULL)
        => Last.out.kind = "NotFound"]_vars

\* every run that is COMPLETED is there and COMPLETED after the step
CompletedKept ==
    \A r \in DOMAIN runs :
        runs[r].state = COMPLETED
            => r \in DOMAIN runs' /\ runs'[r].state = COMPLETED
\* a set_value without force (Run.set_value, which a request with a body
\* reaches) that returns at this step for a COMPLETED run is refused and
\* writes nothing
UnforcedRefused ==
    \A r \in DOMAIN runs :
        (/\ Returned("set_value") /\ Last.call.run = r /\ ~Last.call.force
         /\ Last.call.payload # Empty
         /\ runs[r].state = COMPLETED)
        => Last.out.kind = "InvalidStateTransition" /\ runs' = runs
\* this step is the commit of a claim that asked for a COMPLETED run, and
\* writes the new state to the run it took and nothing else
ClaimOfCompleted ==
    \E p \in Procs :
        /\ pc[p] = "claim_locked" /\ pc'[p] = "idle"
        /\ loc[p].state = COMPLETED
        /\ runs' = SetState(runs, loc[p].target, loc[p].new)

\* C19 as claimed: a run that is COMPLETED stays COMPLETED under every step
\* of lookup_run, get_run_with_state and set_value: set_value without force
\* is refused, set_value with force leaves it COMPLETED and no claim moves
\* it to another state.
C19_CompletedStays ==
    [][StatePut \/ (CompletedKept /\ UnforcedRefused)]_vars

\* C19 as amended: a run that is COMPLETED stays COMPLETED under every
\* step of lookup_run and set_value (refused without force, COMPLETED again
\* with force) and of a claim that asks for another state; a claim that
\* asks for state COMPLETED with a new_state moves the run it takes to
\* new_state.
C19_CompletedLeftByClaim ==
    [][StatePut \/ (UnforcedRefused /\ (CompletedKept \/ ClaimOfCompleted))]_vars

\* a set_value without force was refused on a COMPLETED run, which holds
\* its state and value
C19_Witness ==
    /\ Len(hist) = 1
    /\ hist[1].call.op = "set_value"
    /\ ~hist[1].call.force
    /\ hist[1].call.payload = "y"
    /\ hist[1].out.kind = "InvalidStateTransition"
    /\ hist[1].call.run \in DOMAIN runs
    /\ runs[hist[1].call.run].state = COMPLETED
    /\ runs[hist[1].call.run].value = "x"

\* every run of the store rs that holds a value is COMPLETED
PayloadCompleted(rs) ==
    \A r \in DOMAIN rs : rs[r].value # NULL => rs[r].state = COMPLETED

\* this step is a run_state PUT on a COMPLETED run, and writes the state
\* it is given to that run and nothing else
StatePutOfCompleted ==
    /\ StatePut
    /\ Last.call.run \in DOMAIN runs
    /\ runs[Last.call.run].state = COMPLETED
    /\ runs' = SetState(runs, Last.call.run, Last.call.state)

\* C23 as claimed: a run that holds a value is COMPLETED, and no step of a
\* request, a claim and a state change included, moves a run that holds a
\* value to another state.
C23_PayloadOnlyCompleted ==
    [][PayloadCompleted(runs) => PayloadCompleted(runs')]_vars

\* C23 as amended: when every run that holds a value is COMPLETED, this is
\* so after every step of lookup_run and set_value and of a claim that
\* asks for another state than COMPLETED; a claim that asks for COMPLETED
\* with a new_state and a run_state PUT on a COMPLETED run write the state
\* they are given and leave the value, so the run holds a value in a state
\* other than COMPLETED.
C23_PayloadLeftByStateWrite ==
    [][PayloadCompleted(runs) =>
          \/ PayloadCompleted(runs')
          \/ ClaimOfCompleted
          \/ StatePutOfCompleted]_vars

\* a set_value without force has completed a run with y beside a run that
\* is COMPLETED with x
C23_Witness ==
    /\ Len(hist) = 1
    /\ hist[1].call.op = "set_value" /\ ~hist[1].call.force
    /\ hist[1].out.kind = "ok"
    /\ runs[hist[1].call.run].state = COMPLETED
    /\ runs[hist[1].call.run].value = "y"
    /\ \E r \in DOMAIN runs : runs[r].state = COMPLETED /\ runs[r].value = "x"
    /\ PayloadCompleted(runs)

\* this step is the return of a run_value PUT for run r
PutReturns(r) == Returned("set_value") /\ Last.call.run = r
\* the request is rejected as kind and the store is left as it was
Rejected(kind) == Last.out.kind = kind /\ runs' = runs
\* the state permits set_value, or force is set
Permitted(r) == runs[r].state \notin Refusing \/ Last.call.force

\* C25 as claimed: run_value PUT on a run: when the state forbids set_value
\* and force is not set the request is rejected as InvalidStateTransition
\* (403), with 'value' in the payload and without; when the state permits
\* it or force is set and the payload lacks 'value' it is rejected as
\* BadPayload (400); in both cases the run does not become COMPLETED.
C25_StateBeforePayload ==
    [][\A r \in DOMAIN runs :
        PutReturns(r)
        => /\ ~Permitted(r) => Rejected("InvalidStateTransition")
           /\ (Permitted(r) /\ Last.call.payload \in {Missing, Empty})
                => Rejected("BadPayload")]_vars

\* C25 as amended: a run_value PUT without a body or with the body {} is
\* rejected as BadPayload (400) whatever the state; with a body that is not
\* empty it is rejected as InvalidStateTransition (403) when the state
\* forbids set_value and force is not set, with 'value' in the body and
\* without, and as BadPayload (400) when the state permits it or force is
\* set and the body lacks 'value'; in every case the store is left as it
\* was.
C25_EmptyBodyBeforeState ==
    [][\A r \in DOMAIN runs :
        PutReturns(r)
        => /\ Last.call.payload = Empty => Rejected("BadPayload")
           /\ (Last.call.payload # Empty /\ ~Permitted(r))
                => Rejected("InvalidStateTransition")
           /\ (Last.call.payload = Missing /\ Permitted(r))
                => Rejected("BadPayload")]_vars

\* a set_value with force and without 'value' was rejected as BadPayload
\* on a PROVISIONAL run, which is PROVISIONAL still
C25_Witness ==
    /\ Len(hist) = 1
    /\ hist[1].call.op = "set_value"
    /\ hist[1].call.force
    /\ hist[1].call.payload = Missing
    /\ hist[1].out.kind = "BadPayload"
    /\ hist[1].call.run \in DOMAIN runs
    /\ runs[hist[1].call.run].state = PROVISIONAL
    /\ runs[hist[1].call.run].value = NULL

\* every scenario has one PROVISIONAL run at most in the store rs
OneProvisional(rs) ==
    \A s \in Scenarios : Cardinality(Provisionals(rs, s)) <= 1
\* this step is the commit of a claim whose new_state is PROVISIONAL
ClaimToProvisional ==
    \E p \in Procs :
        pc[p] = "claim_locked" /\ pc'[p] = "idle" /\ loc[p].new = PROVISIONAL

\* C26: when no request overlaps another and states are changed by
\* lookup_run, by claims whose new_state is not PROVISIONAL and by
\* set_value only, a scenario that has one PROVISIONAL run at most has one
\* at most after every step, hence after every finite sequence of calls.
C26_SequentialOneProvisional ==
    [][(OneProvisional(runs) /\ ~StatePut /\ ~ClaimToProvisional)
          => OneProvisional(runs')]_vars

\* a claim NEW -> ACTIVE has returned a run while another run of the
\* scenario is PROVISIONAL, the only one
C26_Witness ==
    /\ Len(hist) = 1
    /\ hist[1].call.op = "get_run_with_state"
    /\ hist[1].call.state = NEW_ /\ hist[1].call.new = ACTIVE
    /\ hist[1].out.kind = "run"
    /\ Cardinality(Provisionals(runs, "misfit")) = 1

\* ================================== a result is set, then it is read back
\* a scenario of either run type with runs in any state, with or without a
\* value
InitValue == \E s \in Scenarios : \E rs \in AnyStores(s, MaxId - 1) : InitWith(rs)

\* the scenario the caller works on: the one that holds the runs
Served == {s \in Scenarios : \A r \in DOMAIN runs : runs[r].scenario = s}

\* one caller puts a value, and when that request has returned gets one
NextValue ==
    \/ /\ hist = <<>>
       /\ \E s \in Served, r \in Ids, v \in Payloads \cup {Missing}, f \in BOOLEAN :
             SetValueCheck(Client, s, r, v, f)
    \/ SetValueWrite(Client)
    \/ /\ Len(hist) = 1
       /\ \E s \in Served, r \in Ids : GetValue(Client, s, r)

SpecValue == InitValue /\ [][NextValue]_vars

\* the states in which Run.set_value takes a payload given without force
Accepting == {ACTIVE, RUN, POSTPROCESSING}

\* C12: set_value(run, {value: x}) without force on a run in ACTIVE, RUN or
\* POSTPROCESSING succeeds, sets the state to COMPLETED and stores x, and
\* the get_value(run) that follows it returns {value: x}, in a scenario of
\* MISFIT runs and in one of PATH runs alike.
C12_SetThenGet ==
    [][/\ \A r \in DOMAIN runs :
            (/\ Returned("set_value")
             /\ Last.call.run = r /\ Last.call.scenario = runs[r].scenario
             /\ ~Last.call.force /\ Last.call.payload \in Payloads
             /\ runs[r].state \in Accepting)
            => /\ Last.out.kind = "ok"
               /\ runs' = [runs EXCEPT ![r].state = COMPLETED,
                                       ![r].value = Last.call.payload]
       /\ (/\ Returned("get_value") /\ Len(hist) = 1
           /\ hist[1].call.op = "set_value" /\ hist[1].out.kind = "ok"
           /\ ~hist[1].call.force
           /\ Last.call.run = hist[1].call.run
           /\ Last.call.scenario = hist[1].call.scenario)
          => /\ Last.out = Outcome("value", NoRun, 0, hist[1].call.payload, NoRun)
             /\ runs' = runs]_vars

\* a PATH run took the value y without force, and get_value returned y
C12_Witness ==
    /\ Len(hist) = 2
    /\ hist[1].call.op = "set_value" /\ ~hist[1].call.force
    /\ hist[1].call.scenario = "path" /\ runtype("path") = "PATH"
    /\ hist[1].call.payload = "y" /\ hist[1].out.kind = "ok"
    /\ hist[2].call.op = "get_value" /\ hist[2].call.run = hist[1].call.run
    /\ hist[2].out.kind = "value" /\ hist[2].out.value = "y"
    /\ runs[hist[1].call.run].state = COMPLETED

\* ============================================== get_run, on any store
\* the stores of up to n runs, each of either scenario and bound to any
\* vector (two runs of a scenario bound to one vector included, which
\* concurrent lookups leave behind), all NEW
FindStores(n) ==
    UNION {{[i \in 1..k |-> [scenario |-> sc[i], state |-> NEW_,
                             values |-> v[i], value |-> NULL]] :
               sc \in [1..k -> Scenarios], v \in [1..k -> Vectors]} :
           k \in 0..n}

InitFind == \E rs \in FindStores(MaxId) : InitWith(rs)

\* one get_run of one caller, for either scenario and any dictionary
NextFind ==
    /\ hist = <<>>
    /\ \E s \in Scenarios, d \in Dicts : GetRun(Client, s, d)

SpecFind == InitFind /\ [][NextFind]_vars

\* the runs of scenario s that agree with dictionary d on every parameter
\* of the study; a parameter d gives no value for agrees with no run
AgreeOnAll(s, d) ==
    {r \in DOMAIN runs : /\ runs[r].scenario = s
                         /\ \A q \in Params :
                               q \in DOMAIN d /\ runs[r].values[q] = d[q]}

\* C15: get_run(scenario, vector) returns a run only if the run belongs to
\* the scenario and its bound value equals the submitted one for every
\* parameter, and answers NotFound exactly when no run of the scenario
\* agrees on every parameter; a run that agrees on some parameters only is
\* never returned.
C15_FindExact ==
    [][\A s \in Scenarios, d \in Dicts :
        (Returned("get_run") /\ Last.call.scenario = s /\ Last.call.dict = d)
        => /\ Last.out.kind \in {"run", "NotFound"}
           /\ (Last.out.kind = "NotFound") <=> (AgreeOnAll(s, d) = {})
           /\ (Last.out.kind = "run") => Last.out.run \in AgreeOnAll(s, d)]_vars

\* get_run has returned the run bound to the vector, beside a run of the
\* scenario that agrees on parameter a only and a run of the other
\* scenario bound to the same vector
C15_Witness ==
    /\ Len(hist) = 1
    /\ hist[1].call.op = "get_run"
    /\ hist[1].out.kind = "run"
    /\ \E r1, r2 \in DOMAIN runs :
          /\ runs[r1].scenario = hist[1].call.scenario
          /\ runs[r1].values["a"] = hist[1].call.dict["a"]
          /\ runs[r1].values["b"] # hist[1].call.dict["b"]
          /\ runs[r2].scenario # hist[1].call.scenario
          /\ runs[r2].values = hist[1].call.dict

\* ==================================================== the life of one run
\* the tester's requests, one after the other, on a scenario without runs:
\* lookup_run(v) twice, the claim NEW -> ACTIVE, set_value on the run the
\* claim returned, get_value of it, and then lookups of any vector
NextLife ==
    \/ /\ hist = <<>>
       /\ \E s \in Scenarios, d \in Vectors : LookupFind(Tester, s, d)
    \/ /\ Len(hist) = 1
       /\ LookupFind(Tester, hist[1].call.scenario, hist[1].call.dict)
    \/ LookupStep(Tester)
    \/ /\ Len(hist) = 2
       /\ ClaimSelect(Tester, hist[1].call.scenario, NEW_, ACTIVE)
    \/ ClaimWrite(Tester)
    \/ /\ Len(hist) = 3 /\ hist[3].out.kind = "run"
       /\ \E x \in Payloads :
             SetValueCheck(Tester, hist[1].call.scenario, hist[3].out.run, x, FALSE)
    \/ SetValueWrite(Tester)
    \/ /\ Len(hist) = 4
       /\ GetValue(Tester, hist[1].call.scenario, hist[4].call.run)
    \/ /\ Len(hist) >= 5
       /\ \E d \in Vectors : LookupFind(Tester, hist[1].call.scenario, d)

SpecLife == Init /\ [][NextLife]_vars

\* the completed run of the life: bound to the vector first looked up, with
\* the value that was set
LifeRun == [scenario |-> hist[1].call.scenario, state |-> COMPLETED,
            values |-> hist[1].call.dict, value |-> hist[4].call.payload]

\* C21: on a scenario without runs, after lookup_run(v) twice, the claim
\* NEW -> ACTIVE and set_value({value: x}) on the claimed run, get_value
\* returns {value: x}, the run is COMPLETED, and every later lookup_run(v)
\* returns that run, COMPLETED and with x, and leaves it as it is.
C21_EndToEnd ==
    /\ Len(hist) >= 3 =>
          /\ hist[3].out.kind = "run"
          /\ hist[3].out.state = ACTIVE
          /\ hist[3].out.run = hist[2].out.touched
    /\ Len(hist) >= 4 =>
          /\ hist[4].out.kind = "ok"
          /\ hist[3].out.run \in DOMAIN runs
          /\ runs[hist[3].out.run] = LifeRun
          /\ Matches(runs, hist[1].call.scenario, hist[1].call.dict)
                = {hist[3].out.run}
    /\ Len(hist) >= 5 =>
          hist[5].out = Outcome("value", NoRun, 0, hist[4].call.payload, NoRun)
    /\ \A i \in 6..Len(hist) :
          hist[i].call.dict = hist[1].call.dict
            => hist[i].out = Outcome("run", hist[3].out.run, COMPLETED,
                                     hist[4].call.payload, NoRun)

\* the run of a PATH scenario was completed with y; a lookup of another
\* vector followed, and the lookup after it returned the completed run
C21_Witness ==
    /\ Len(hist) >= 7
    /\ hist[1].call.scenario = "path"
    /\ hist[4].call.payload = "y"
    /\ hist[5].out.kind = "value"
    /\ hist[6].call.dict # hist[1].call.dict
    /\ hist[6].out.kind = "provisional"
    /\ hist[7].call.dict = hist[1].call.dict
    /\ hist[7].out.kind = "run"
    /\ hist[7].out.state = COMPLETED

\* ============================================== every request returns
\* what the callers submit while they contend: one vector, bound to no run
FairInputs == {VecOf(MaxId)}

\* runs that are PROVISIONAL, NEW or ACTIVE, one of them PROVISIONAL at
\* most, and an identity left for every caller that creates a run
InitFair ==
    \E rs \in StoresOf("misfit", MaxId - NumProcs, {PROVISIONAL, NEW_, ACTIVE}) :
        /\ Cardinality(Provisionals(rs, "misfit")) <= 1
        /\ InitWith(rs)

\* the steps a handler takes once its request has arrived
Continue(p) ==
    \/ LookupStep(p)
    \/ ClaimBlock(p)
    \/ ClaimAcquire(p)
    \/ ClaimWrite(p)
    \/ SetValueWrite(p)

\* callers look runs up, get them, claim NEW runs and set values, all at
\* the same time
NextFair ==
    \E p \in Procs :
        \/ \E d \in FairInputs : LookupFind(p, "misfit", d)
        \/ \E d \in FairInputs : GetRun(p, "misfit", d)
        \/ ClaimBegin(p, "misfit", NEW_, ACTIVE)
        \/ \E r \in DOMAIN runs : SetValueCheck(p, "misfit", r, "x", FALSE)
        \/ Continue(p)

\* every server process goes on with the request it handles (no process
\* stops in the middle of a handler); requests need not keep arriving
Fairness == \A p \in Procs : WF_vars(Continue(p))

SpecFair == InitFair /\ [][NextFair]_vars /\ Fairness

\* every request that has arrived returns
EveryCallReturns == \A p \in Procs : (pc[p] # "idle") ~> (pc[p] = "idle")

\* this step is the return of a handler that had to wait for another caller
ReturnsAfterWait ==
    \E p \in Procs : pc[p] = "claim_wait" /\ pc'[p] = "idle"

\* C22 as claimed: under weak fairness every lookup_run, get_run, claim
\* and set_value returns, a claim that contends for a row lock included,
\* and an outcome NotFound or waiting is returned without a wait for
\* another caller.
C22_NoWaitForOthers ==
    /\ EveryCallReturns
    /\ [][ReturnsAfterWait => Last.out.kind \notin {"NotFound", "waiting"}]_vars

\* C22 as amended: under weak fairness every lookup_run, get_run, claim
\* and set_value returns; a claim with new_state waits while every run in
\* the state is held by other claims, a holder never waits for its commit,
\* and the claim that waited returns NotFound when the holders have moved
\* all those runs out of the state.
C22_WaitsForHolderOnly ==
    /\ EveryCallReturns
    /\ [](\A p \in Procs :
            /\ pc[p] = "claim_locked" => ENABLED ClaimWrite(p)
            /\ pc[p] = "claim_wait" =>
                 \/ \E q \in Procs \ {p} : pc[q] = "claim_locked"
                 \/ ENABLED ClaimAcquire(p))
    /\ [][ReturnsAfterWait =>
            /\ Last.out.kind = "NotFound"
            /\ InState(runs, Last.call.scenario, Last.call.state) = {}
            /\ runs' = runs]_vars

\* a claim waits for the one NEW run, which another claim holds
C22_Witness ==
    \E p, q \in Procs :
        /\ pc[p] = "claim_wait"
        /\ pc[q] = "claim_locked"
        /\ InState(runs, "misfit", NEW_) = {loc[q].target}

\* ================================= a scenario of a run type that is unknown
\* the scenario's runs, were there any: in any state, with or without value
InitKind == \E rs \in AnyStores(Unknown, MaxId - 1) : InitWith(rs)

\* one lookup_run or claim of one caller for that scenario
NextKind ==
    /\ hist = <<>>
    /\ \/ \E d \in LookupInputs : LookupFind(Client, Unknown, d)
       \/ \E st \in LookupState : ClaimRead(Client, Unknown, st)
       \/ \E st, ns \in LookupState : ClaimSelect(Client, Unknown, st, ns)

SpecKind == InitKind /\ [][NextKind]_vars

\* C24: for a scenario whose run type is neither MISFIT nor PATH,
\* lookup_run and get_run_with_state abort with UnknownKind (ValueError) in
\* the step they start with, and create, delete and change no run.
C24_UnknownKindAborts ==
    [][/\ runs' = runs
       /\ lastId' = lastId
       /\ \A p \in Procs : pc'[p] = "idle"
       /\ Returned("lookup_run") \/ Returned("get_run_with_state")
       /\ Last.call.scenario = Unknown
       /\ Last.out = Status("UnknownKind", NoRun)]_vars

\* a lookup_run for a vector that a PROVISIONAL run of the scenario is
\* bound to was aborted, and the run is PROVISIONAL still
C24_Witness ==
    /\ Len(hist) = 1
    /\ hist[1].call.op = "lookup_run"
    /\ hist[1].call.dict \in Vectors
    /\ hist[1].out.kind = "UnknownKind"
    /\ \E r \in Matches(runs, Unknown, hist[1].call.dict) :
          runs[r].state = PROVISIONAL

\* ================================ one caller retries, on any store
\* runs with distinct vectors in any state, several PROVISIONAL among them
\* (run_state PUT and claims make a run PROVISIONAL, and so do lookups that
\* overlap)
InitRetry == \E rs \in StoresOf("misfit", MaxId - 1, LookupState) : InitWith(rs)

SpecRetry == InitRetry /\ [][NextSeqLookup]_vars

\* the request that returned last before this step was lookup_run(d) and
\* answered kind
PreviousWas(d, kind) ==
    /\ Len(hist) >= 1
    /\ IsLookup(hist[Len(hist)])
    /\ hist[Len(hist)].call.dict = d
    /\ hist[Len(hist)].out.kind = kind

\* C27 as claimed: when lookup_run(v) has returned waiting the scenario has
\* no PROVISIONAL run and v is bound to no run, and the caller's next
\* lookup_run(v) returns provisional.
C27_WaitingClearsSlot ==
    [][\A d \in Vectors :
        /\ (LookupReturns("misfit", d) /\ Last.out.kind = "waiting")
             => /\ Provisionals(runs', "misfit") = {}
                /\ Matches(runs', "misfit", d) = {}
        /\ (LookupReturns("misfit", d) /\ PreviousWas(d, "waiting"))
             => Last.out.kind = "provisional"]_vars

\* C27 as amended: lookup_run(v) that returns waiting has deleted one
\* PROVISIONAL run and nothing else, and v is bound to no run; when the
\* scenario held one PROVISIONAL run it holds none now and the caller's
\* next lookup_run(v) returns provisional; when it held several, the next
\* lookup_run(v) deletes another and returns waiting again.
C27_WaitingEvictsOne ==
    [][\A d \in Vectors :
        /\ (LookupReturns("misfit", d) /\ Last.out.kind = "waiting")
             => /\ Last.out.touched \in Provisionals(runs, "misfit")
                /\ runs' = Remove(runs, Last.out.touched)
                /\ Matches(runs', "misfit", d) = {}
                /\ Cardinality(Provisionals(runs, "misfit")) = 1
                     => Provisionals(runs', "misfit") = {}
        /\ (LookupReturns("misfit", d) /\ PreviousWas(d, "waiting"))
             => Last.out.kind
                  = IF Provisionals(runs, "misfit") = {} THEN "provisional"
                                                         ELSE "waiting"]_vars

\* lookup_run(v) returned waiting and then provisional, beside a run that
\* is not PROVISIONAL
C27_Witness ==
    /\ Len(hist) = 2
    /\ IsLookup(hist[1]) /\ IsLookup(hist[2])
    /\ hist[1].call.dict = hist[2].call.dict
    /\ hist[1].out.kind = "waiting"
    /\ hist[2].out.kind = "provisional"
    /\ \E r \in DOMAIN runs : runs[r].state # PROVISIONAL
    /\ Provisionals(runs, "misfit") = {hist[2].out.touched}

\* the first three requests were lookup_run(d), all three
ThreeLookups(d) ==
    /\ Len(hist) >= 3
    /\ \A i \in 1..3 : IsLookup(hist[i]) /\ hist[i].call.dict = d

\* C28 as claimed: a client that calls lookup_run(v) again and again for
\* one vector, alone on the scenario, receives an outcome that is neither
\* waiting nor provisional within three calls, from any store.
C28_WithinThreeCalls ==
    \A d \in Vectors :
        ThreeLookups(d)
            => \E i \in 1..3 : hist[i].out.kind \notin {"waiting", "provisional"}

\* C28 as amended: each lookup_run(v) that answers waiting leaves one
\* PROVISIONAL run less; the client receives the run or the status new
\* within three calls unless the first two answer waiting, which happens
\* only when a PROVISIONAL run is left after the first, that is when the
\* scenario held two or more at the start.
C28_WithinThreeIfOneProvisional ==
    /\ [](\A d \in Vectors :
            ThreeLookups(d)
                => \/ \E i \in 1..3 : hist[i].out.kind \in {"run", "new"}
                   \/ hist[1].out.kind = "waiting" /\ hist[2].out.kind = "waiting")
    /\ [][\A d \in Vectors :
            (LookupReturns("misfit", d) /\ Last.out.kind = "waiting")
            => /\ Cardinality(Provisionals(runs', "misfit"))
                    = Cardinality(Provisionals(runs, "misfit")) - 1
               /\ PreviousWas(d, "waiting") => Provisionals(runs, "misfit") # {}]_vars

\* lookup_run(v) three times: waiting, provisional, new
C28_Witness ==
    /\ Len(hist) = 3
    /\ \E d \in Vectors : ThreeLookups(d)
    /\ hist[1].out.kind = "waiting"
    /\ hist[2].out.kind = "provisional"
    /\ hist[3].out.kind = "new"
    /\ runs[hist[3].out.touched].state = NEW_

\* ================================== two clients, each retrying its vector
\* the two clients, each with a vector of its own that no run is bound to
Retriers == {p \in Procs : p <= 2}
OwnVector(p) == VecOf(p + 2)

\* the scenario at the start: runs bound to other vectors, none of them
\* PROVISIONAL
InitEvict ==
    \E rs \in StoresOf("misfit", MaxId - 2, LookupState \ {PROVISIONAL}) :
        InitWith(rs)

\* each client calls lookup_run with its vector again and again; the
\* handlers interleave at their SQL statements
NextEvict ==
    \E p \in Retriers :
        \/ LookupFind(p, "misfit", OwnVector(p))
        \/ LookupStep(p)

SpecEvict == InitEvict /\ [][NextEvict]_vars

\* the requests so far, in the order they returned: the first client was
\* answered provisional, then the second waiting, and so on in turn
Alternation ==
    /\ \A p \in Callers : pc[p] = "idle"
    /\ \A i \in 1..Len(hist) :
        /\ hist[i].call.op = "lookup_run"
        /\ hist[i].proc = 2 - (i % 2)
        /\ hist[i].call.dict = OwnVector(hist[i].proc)
        /\ hist[i].out.kind = IF i % 2 = 1 THEN "provisional" ELSE "waiting"

\* C29: two clients retry lookup_run on one scenario, each with its own
\* unbound vector.  Whenever they have been answered in turn provisional
\* (first client) and waiting (second client), neither vector has reached
\* NEW; after a waiting both vectors are unbound and no run is PROVISIONAL,
\* as at the start, and after a provisional the one PROVISIONAL run is the
\* first client's, which the second client's next lookup evicts.  The
\* condition of the start thus holds again after every two requests, and
\* lookup_run depends on nothing else (the runs bound to the vector, the
\* PROVISIONAL runs), so the two answers repeat without end and neither
\* vector is ever confirmed.
C29_EvictionRecurs ==
    Alternation
        => /\ Matches(runs, "misfit", OwnVector(2)) = {}
           /\ \A r \in Matches(runs, "misfit", OwnVector(1)) :
                  runs[r].state = PROVISIONAL
           /\ IF Len(hist) % 2 = 0
              THEN /\ Matches(runs, "misfit", OwnVector(1)) = {}
                   /\ Provisionals(runs, "misfit") = {}
              ELSE /\ Provisionals(runs, "misfit") = {hist[Len(hist)].out.touched}
                   /\ Matches(runs, "misfit", OwnVector(1))
                        = Provisionals(runs, "misfit")

\* provisional, waiting, provisional: the first client's run was evicted
\* before the client saw it a second time, and its retry created a run anew
C29_Witness ==
    /\ Alternation
    /\ Len(hist) = 3
    /\ Provisionals(runs, "misfit") = {hist[3].out.touched}
    /\ InState(runs, "misfit", NEW_) = {}

\* ------------------------------------------------- which run a claim takes
LowestId(S) == CHOOSE m \in S : \A n \in S : m <= n

\* C30: get_run_with_state(state[, new_state]) returns the run of lowest
\* identity among the runs of the scenario in state (so that two claims
\* without new_state on the same store contents return the same run).
C30_LowestIdentity ==
    [][\A st \in LookupState :
        (ClaimReturns(st) /\ InState(runs, "misfit", st) # {})
        => Last.out.run = LowestId(InState(runs, "misfit", st))]_vars

\* ------------------------------------------------ the vector a run is bound to
\* the runs that exist before and after this step
Kept == DOMAIN runs \cap DOMAIN runs'
\* the runs this step creates
Created == DOMAIN runs' \ DOMAIN runs

\* C31: no step of lookup_run, get_run_with_state, run_state or set_value
\* changes the vector or the scenario of a run that exists before and after
\* it; a run is created by lookup_run alone, with the vector submitted, one
\* value for each parameter of the study.
C31_VectorFrame ==
    [][/\ \A r \in Kept : /\ runs'[r].values = runs[r].values
                          /\ runs'[r].scenario = runs[r].scenario
       /\ \A r \in Created :
            /\ Returned("lookup_run")
            /\ Last.out.kind = "provisional"
            /\ DOMAIN runs'[r].values = Params
            /\ runs'[r].values = Last.call.dict]_vars

\* a run_state PUT has written the state of a run which is still bound to
\* the vector it had, and that vector is not the zero vector
C31_Witness ==
    /\ Len(hist) = 1
    /\ hist[1].call.op = "run_state"
    /\ hist[1].out.kind = "ok"
    /\ hist[1].call.run = MaxId - 1
    /\ runs[MaxId - 1].state = hist[1].call.state
    /\ runs[MaxId - 1].values = VecOf(MaxId - 1)
    /\ \E q \in Params : runs[MaxId - 1].values[q] # 0

\* ========================================= one worker drains the NEW runs
\* a scenario whose runs are NEW or COMPLETED
InitDrain == \E rs \in StoresOf("misfit", MaxId, {NEW_, COMPLETED}) : InitWith(rs)

\* the worker claims NEW -> ACTIVE, one request after the other
NextDrain ==
    \/ ClaimSelect(Tester, "misfit", NEW_, ACTIVE)
    \/ ClaimWrite(Tester)

SpecDrain == InitDrain /\ [][NextDrain]_vars

\* the outcomes of the first n requests that returned a run
Claimed(n) == {hist[i].out.run : i \in {j \in 1..n : hist[j].out.kind = "run"}}

\* C32: with k runs NEW and no other caller, the worker that repeats
\* get_run_with_state(NEW, ACTIVE) is returned a run, as ACTIVE, by each of
\* its first k requests, k pairwise distinct runs, all of them NEW at the
\* start, and NotFound by every later request; when request k has returned
\* all k runs are ACTIVE and no run is NEW.
C32_DrainsEveryNew ==
    LET k == Cardinality(EverNew)
        n == Len(hist) IN
    /\ \A i \in 1..n :
         IF i <= k
         THEN /\ hist[i].out.kind = "run"
              /\ hist[i].out.state = ACTIVE
              /\ hist[i].out.run \in EverNew
              /\ \A j \in 1..(i - 1) : hist[j].out.run # hist[i].out.run
         ELSE hist[i].out.kind = "NotFound"
    /\ pc[Tester] = "idle"
         => /\ InState(runs, "misfit", ACTIVE) = Claimed(n)
            /\ Cardinality(InState(runs, "misfit", NEW_)) = IF n < k THEN k - n ELSE 0

\* every run was NEW; the worker has claimed them all and has then been
\* answered NotFound
C32_Witness ==
    /\ Cardinality(EverNew) = MaxId
    /\ Len(hist) = MaxId + 1
    /\ Claimed(MaxId) = InState(runs, "misfit", ACTIVE)
    /\ Cardinality(Claimed(MaxId)) = MaxId
    /\ hist[MaxId + 1].out.kind = "NotFound"

\* ----------------------------------------------- a set_value that fails
\* C33: a set_value that fails with InvalidStateTransition or with
\* BadPayload (a payload without 'value', or no payload) leaves the state
\* and the value of the run, and every other run, as they were.
C33_FailedSetValueFrame ==
    [][(/\ Returned("set_value")
        /\ Last.out.kind \in {"InvalidStateTransition", "BadPayload"})
       => /\ runs' = runs
          /\ lastId' = lastId]_vars

\* a set_value with a payload that lacks 'value' has failed on a RUN run,
\* which is still RUN and without a value
C33_Witness ==
    /\ Len(hist) = 1
    /\ hist[1].call.op = "set_value"
    /\ ~hist[1].call.force
    /\ hist[1].call.payload = Missing
    /\ hist[1].out.kind = "BadPayload"
    /\ hist[1].call.run \in DOMAIN runs
    /\ runs[hist[1].call.run].state = RUN
    /\ runs[hist[1].call.run].value = NULL

\* ===================================== concurrent set_value on the runs
\* a scenario whose runs are ACTIVE or COMPLETED
InitPut == \E rs \in StoresOf("misfit", MaxId - 1, {ACTIVE, COMPLETED}) : InitWith(rs)

\* callers put values, with force and without; the handlers interleave
\* between the load of the run and the commit
NextPut ==
    \E p \in Procs :
        \/ \E r \in DOMAIN runs, v \in Payloads, f \in BOOLEAN :
              SetValueCheck(p, "misfit", r, v, f)
        \/ SetValueWrite(p)

SpecPut == InitPut /\ [][NextPut]_vars

\* the finished set_value requests without force on run r that succeeded
UnforcedOk(r) ==
    {i \in 1..Len(hist) : /\ hist[i].call.op = "set_value"
                          /\ hist[i].call.run = r
                          /\ ~hist[i].call.force
                          /\ hist[i].out.kind = "ok"}

\* this step is the commit of a set_value with force on run r
ForcedWrite(r) ==
    \E p \in Procs : /\ pc[p] = "set_value_write" /\ pc'[p] = "idle"
                      /\ loc[p].target = r /\ loc[p].force

\* C34: under any interleaving of set_value requests on a run, the value of
\* a COMPLETED run that holds one is changed by a set_value with force
\* alone, and of the set_value requests without force on one run at most
\* one succeeds.
C34_OneUnforcedWrite ==
    /\ [](\A r \in DOMAIN runs : Cardinality(UnforcedOk(r)) <= 1)
    /\ [][\A r \in Kept :
            (/\ runs[r].state = COMPLETED /\ runs[r].value # NULL
             /\ runs'[r].value # runs[r].value)
            => ForcedWrite(r)]_vars

\* ------------------------------------------ a COMPLETED run holds a value
\* every run of the store rs that is COMPLETED holds a value
CompletedHolds(rs) ==
    \A r \in DOMAIN rs : rs[r].state = COMPLETED => rs[r].value # NULL

\* this step is the commit of a claim whose new_state is COMPLETED, and
\* writes that state to the run it took and nothing else
ClaimIntoCompleted ==
    \E p \in Procs :
        /\ pc[p] = "claim_locked" /\ pc'[p] = "idle"
        /\ loc[p].new = COMPLETED
        /\ runs' = SetState(runs, loc[p].target, COMPLETED)

\* this step is a run_state PUT of the state COMPLETED, and writes that
\* state to the run and nothing else
StatePutToCompleted ==
    /\ StatePut
    /\ Last.call.state = COMPLETED
    /\ Last.call.run \in DOMAIN runs
    /\ runs' = SetState(runs, Last.call.run, COMPLETED)

\* a get_value that returns at this step for a COMPLETED run returns the
\* value the run holds
CompletedValueRead ==
    \A r \in DOMAIN runs :
        (/\ Returned("get_value")
         /\ Last.call.run = r /\ Last.call.scenario = runs[r].scenario
         /\ runs[r].state = COMPLETED)
        => Last.out.kind = "value" /\ Last.out.value = runs[r].value

\* C35 as claimed: every COMPLETED run holds a value, and no step of a
\* request, a claim and a state change included, makes a run COMPLETED
\* that holds none.
C35_CompletedHoldsValue ==
    [][CompletedHolds(runs) => CompletedHolds(runs')]_vars

\* C35 as amended: when every COMPLETED run holds a value, this is so after
\* every step of lookup_run and set_value and of a claim and a run_state
\* PUT whose new state is not COMPLETED, and get_value on a COMPLETED run
\* returns the value it holds; a claim with new_state COMPLETED and a
\* run_state PUT of COMPLETED write the state and store no value, so the
\* run is COMPLETED and holds none.
C35_CompletedByStateWrite ==
    [][/\ CompletedHolds(runs) =>
            \/ CompletedHolds(runs')
            \/ ClaimIntoCompleted
            \/ StatePutToCompleted
       /\ CompletedValueRead]_vars

\* get_value has returned the value x of a COMPLETED run, in a store whose
\* COMPLETED runs all hold a value, beside a run that holds none
C35_Witness ==
    /\ Len(hist) = 1
    /\ hist[1].call.op = "get_value"
    /\ hist[1].out.kind = "value" /\ hist[1].out.value = "x"
    /\ hist[1].call.run \in DOMAIN runs
    /\ runs[hist[1].call.run].state = COMPLETED
    /\ CompletedHolds(runs)
    /\ \E r \in DOMAIN runs : runs[r].value = NULL

\* ================================ two scenarios of one study, one request
\* the vectors the runs of the two scenarios are bound to, and the states
\* they are in
SharedVectors == {VecOf(1), VecOf(2)}
SharedStates == {PROVISIONAL, NEW_, ACTIVE}

\* stores of up to n runs, each of either scenario, bound to one of the
\* shared vectors (runs of both scenarios bound to one vector included)
TwoScenarioStores(n) ==
    UNION {{[i \in 1..k |-> [scenario |-> sc[i], state |-> st[i],
                             values |-> v[i], value |-> NULL]] :
               sc \in [1..k -> Scenarios], st \in [1..k -> SharedStates],
               v \in [1..k -> SharedVectors]} :
           k \in 0..n}

InitIso == \E rs \in TwoScenarioStores(MaxId - 1) : InitWith(rs)

\* one request of one caller on either scenario, run to its end
NextIso ==
    \/ /\ hist = <<>>
       /\ \E s \in Scenarios :
            \/ \E d \in SharedVectors : LookupFind(Client, s, d)
            \/ \E d \in SharedVectors : GetRun(Client, s, d)
            \/ \E st \in SharedStates : ClaimRead(Client, s, st)
            \/ \E st \in SharedStates : ClaimSelect(Client, s, st, ACTIVE)
            \/ \E r \in Ids, f \in BOOLEAN : SetValueCheck(Client, s, r, "x", f)
    \/ LookupStep(Client)
    \/ ClaimWrite(Client)
    \/ SetValueWrite(Client)

SpecIso == InitIso /\ [][NextIso]_vars

\* the scenario of the request that takes this step
Acting ==
    IF pc[Client] # "idle" THEN loc[Client].scenario
    ELSE IF Returns THEN Last.call.scenario
    ELSE loc'[Client].scenario

\* the runs of scenario s bound to vector d, read off the rows
BoundIn(s, d) ==
    {r \in DOMAIN runs : runs[r].scenario = s /\ runs[r].values = d}
\* the PROVISIONAL runs of scenario s, read off the rows
ProvisionalIn(s) ==
    {r \in DOMAIN runs : runs[r].scenario = s /\ runs[r].state = PROVISIONAL}

\* C36: a step of lookup_run, get_run, get_run_with_state or set_value on
\* scenario A leaves every run of another scenario as it was and creates
\* runs of A only; a run that is returned is a run of A; get_run for a
\* vector that no run of A is bound to answers NotFound, whatever the other
\* scenario holds; lookup_run for such a vector answers provisional when A
\* has no PROVISIONAL run and waiting, having deleted a run of A, when it
\* has one, whatever the other scenario holds.
C36_ScenarioIsolation ==
    [][/\ \A r \in DOMAIN runs :
            runs[r].scenario # Acting => r \in DOMAIN runs' /\ runs'[r] = runs[r]
       /\ \A r \in Created : runs'[r].scenario = Acting
       /\ (Returns /\ Last.out.kind = "run") => runs'[Last.out.run].scenario = Acting
       /\ \A d \in SharedVectors :
            /\ (Returned("get_run") /\ Last.call.dict = d /\ BoundIn(Acting, d) = {})
                  => Last.out.kind = "NotFound"
            /\ (Returned("lookup_run") /\ Last.call.dict = d /\ BoundIn(Acting, d) = {})
                  => IF ProvisionalIn(Acting) = {}
                     THEN /\ Last.out.kind = "provisional"
                          /\ runs'[Last.out.touched].scenario = Acting
                     ELSE /\ Last.out.kind = "waiting"
                          /\ Last.out.touched \in ProvisionalIn(Acting)]_vars

\* lookup_run(v) on a scenario has created a PROVISIONAL run while the other
\* scenario holds a PROVISIONAL run bound to v, which is still there
C36_Witness ==
    /\ Len(hist) = 1
    /\ hist[1].call.op = "lookup_run"
    /\ hist[1].out.kind = "provisional"
    /\ runs[hist[1].out.touched].scenario = hist[1].call.scenario
    /\ \E r \in DOMAIN runs :
          /\ runs[r].scenario # hist[1].call.scenario
          /\ runs[r].state = PROVISIONAL
          /\ runs[r].values = hist[1].call.dict

\* ------------------------------------ lookup_run with a partial dictionary
\* this step is a step of a lookup_run whose dictionary lacks a parameter
PartialLookupStep ==
    \/ /\ pc[Client] # "idle"
       /\ loc[Client].op = "lookup_run"
       /\ KeyErr(loc[Client].dict)
    \/ Returned("lookup_run") /\ KeyErr(Last.call.dict)

\* C37: lookup_run with a dictionary that lacks a value for a parameter of
\* the study creates no run and deletes and changes no run of the scenario,
\* a PROVISIONAL one included.
C37_PartialVectorNoEffect ==
    [][PartialLookupStep => runs' = runs]_vars

====
